---- MODULE Spec2Model ----
(***************************************************************************)
(* Model of the article store and workflow engine of src/server.py: the    *)
(* documents of the drafts directory, the in-memory metadata overlay       *)
(* (article_metadata, guarded by cache_lock) and the request handlers that *)
(* read and write them.                                                    *)
(*                                                                         *)
(* Text is a sequence of one-character strings, so that split, startswith, *)
(* the title regex and strip are computed as the code computes them.  An   *)
(* optional JSON value is None (<<>>) or Some(v) (<<v>>).  An ISO date     *)
(* string is a record of the fields the string spells out, with prec       *)
(* naming how much of it is written ("empty" is the string "").            *)
(***************************************************************************)
EXTENDS Integers, Sequences, FiniteSets, TLC

VARIABLES
    article_metadata,   \* the overlay: a function from article ids to metadata records
    files,              \* the drafts directory: a function from ids to document text
    last,               \* the last request handled: operation, arguments and response
    scenario,           \* the family of requests the clients of this run send
    pc,                 \* per thread: the place of its handler in the code
    lock,               \* cache_lock: the thread that holds it, or NoThread
    local,              \* per thread: its request and the local variables of its handler
    written,            \* the ids whose record some thread has stored or popped
    objects,            \* the dict and list objects of the process, by address
    refs,               \* article_metadata as Python holds it: id -> address of a dict
    held                \* the address of the dict a caller of the module holds, or 0

threads == <<pc, lock, local, written>>
heap == <<objects, refs, held>>
fixed == <<scenario, threads, heap>>
vars == <<article_metadata, files, last, scenario, heap, pc, lock, local, written,
          objects, refs, held>>

-----------------------------------------------------------------------------
(* Optional values, dictionaries *)

None == <<>>
Some(v) == <<v>>
Val(o) == o[1]

EmptyMap == [x \in {} |-> None]
Put(f, k, v) == [x \in DOMAIN f \cup {k} |-> IF x = k THEN v ELSE f[x]]
Pop(f, k) == [x \in DOMAIN f \ {k} |-> f[x]]

-----------------------------------------------------------------------------
(* Text *)

NL == "\n"
Whitespace == {" ", NL}

Untitled == <<"U", "n", "t", "i", "t", "l", "e", "d">>
StartWriting ==
    <<"S", "t", "a", "r", "t", " ", "w", "r", "i", "t", "i", "n", "g", ".", ".", ".">>

\* content.split('\n')
RECURSIVE split(_)
split(s) ==
    IF \A i \in 1..Len(s) : s[i] # NL
    THEN <<s>>
    ELSE LET i == CHOOSE k \in 1..Len(s) : s[k] = NL /\ \A j \in 1..(k - 1) : s[j] # NL
         IN  <<SubSeq(s, 1, i - 1)>> \o split(SubSeq(s, i + 1, Len(s)))

\* '\n'.join(lines)
RECURSIVE join(_)
join(lines) ==
    IF lines = <<>> THEN <<>>
    ELSE IF Len(lines) = 1 THEN lines[1]
    ELSE lines[1] \o <<NL>> \o join(Tail(lines))

\* line.startswith('# ')
startswith_h1(line) == Len(line) >= 2 /\ line[1] = "#" /\ line[2] = " "

\* s.strip()
strip(s) ==
    LET keep == {i \in 1..Len(s) : s[i] \notin Whitespace}
    IN  IF keep = {} THEN <<>>
        ELSE LET lo == CHOOSE i \in keep : \A j \in keep : i <= j
                 hi == CHOOSE i \in keep : \A j \in keep : j <= i
             IN  SubSeq(s, lo, hi)

\* re.search(r'^# (.+)$', content, re.MULTILINE): the first line that is "# "
\* followed by at least one character; group(1) is the rest of that line.
h1_match(line) == startswith_h1(line) /\ Len(line) >= 3

extract_title(content) ==
    LET lines == split(content)
        hits == {i \in 1..Len(lines) : h1_match(lines[i])}
    IN  IF hits = {} THEN Untitled
        ELSE LET i == CHOOSE k \in hits : \A j \in hits : k <= j
             IN  strip(SubSeq(lines[i], 3, Len(lines[i])))

\* len(content.split()): the maximal runs of non-whitespace characters
count_words(content) ==
    Cardinality({i \in 1..Len(content) :
        /\ content[i] \notin Whitespace
        /\ (i = 1 \/ content[i - 1] \in Whitespace)})

\* mutant: the new heading is put in front and the old heading lines are kept
rewrite_title_keep(title, content) == <<"#", " ">> \o title \o <<NL, NL>> \o content

\* save_article, lines 125-132: drop every line starting with "# ", put the new
\* heading and a blank line in front
rewrite_title(title, content) ==
    LET lines == split(content)
        new_lines == SelectSeq(lines, LAMBDA line : ~startswith_h1(line))
    IN  <<"#", " ">> \o title \o <<NL, NL>> \o join(new_lines)

-----------------------------------------------------------------------------
(* Dates: datetime.fromisoformat, isoformat()[:16], replace(day=...) *)

IsoStr(prec, y, mo, d, h, mi, s) ==
    [prec |-> prec, year |-> y, month |-> mo, day |-> d,
     hour |-> h, minute |-> mi, second |-> s]
EmptyStr == IsoStr("empty", 0, 0, 0, 0, 0, 0)

\* Python truthiness of an optional JSON string: None and "" are falsy
Truthy(o) == o # None /\ Val(o).prec # "empty"

IsLeap(y) == (y % 4 = 0 /\ y % 100 # 0) \/ y % 400 = 0
DaysInMonth(y, mo) ==
    IF mo = 2 THEN (IF IsLeap(y) THEN 29 ELSE 28)
    ELSE IF mo \in {4, 6, 9, 11} THEN 30 ELSE 31

\* datetime.fromisoformat(s): the parts the string leaves out are zero
fromisoformat(s) ==
    [year |-> s.year, month |-> s.month, day |-> s.day,
     hour   |-> IF s.prec = "date" THEN 0 ELSE s.hour,
     minute |-> IF s.prec = "date" THEN 0 ELSE s.minute,
     second |-> IF s.prec = "second" THEN s.second ELSE 0]

\* dt.isoformat()[:16]: "YYYY-MM-DDTHH:MM", the seconds cut off
isoformat16(dt) == IsoStr("minute", dt.year, dt.month, dt.day, dt.hour, dt.minute, 0)

\* dt.replace(day=d) raises ValueError unless d is a day of dt's month
replace_day_ok(dt, d) == 1 <= d /\ d <= DaysInMonth(dt.year, dt.month)
replace_day(dt, d) == [dt EXCEPT !.day = d]

\* datetime.toordinal: the days before the year, before the month, and the day
days_before_year(y) ==
    (y - 1) * 365 + ((y - 1) \div 4) - ((y - 1) \div 100) + ((y - 1) \div 400)

RECURSIVE days_before_month(_, _)
days_before_month(y, mo) ==
    IF mo = 1 THEN 0 ELSE days_before_month(y, mo - 1) + DaysInMonth(y, mo - 1)

toordinal(dt) == days_before_year(dt.year) + days_before_month(dt.year, dt.month) + dt.day

seconds_of_day(dt) == dt.second + dt.minute * 60 + dt.hour * 3600

\* a difference that counts the calendar days only
timedelta_days_dates(a, b) == toordinal(a) - toordinal(b)

\* line 386, (a - b).days: timedelta keeps 0 <= seconds < 86400, so the days
\* are the floor of the difference
timedelta_days(a, b) ==
    (toordinal(a) - toordinal(b)) + ((seconds_of_day(a) - seconds_of_day(b)) \div 86400)


-----------------------------------------------------------------------------
(* Responses: send_json_response(data, status), send_error_response(message, status) *)

Response(code, body) == [code |-> code, body |-> body]
Error(code, message) == Response(code, [error |-> message])

-----------------------------------------------------------------------------
(* Article ids; IdOrder is their order as file names (sorted() of the paths) *)

Ids == {"a", "b"}
IdOrder == <<"a", "b">>

-----------------------------------------------------------------------------
(* MetadataOverlay: load_article_metadata, save_article_metadata.  Each runs  *)
(* wholly under cache_lock, so in a handler that runs alone it is one step.   *)

DefaultMetadata ==
    [status |-> "draft", publishDate |-> None, sources |-> <<>>, wordGoal |-> 1000]

\* returns the overlay after the call (defaults inserted on a miss) and the copy
load_article_metadata(md, article_id) ==
    LET md1 == IF article_id \notin DOMAIN md
               THEN Put(md, article_id, DefaultMetadata)
               ELSE md
    IN  [md |-> md1, ret |-> md1[article_id]]

save_article_metadata(md, article_id, metadata) == Put(md, article_id, metadata)

-----------------------------------------------------------------------------
(* ArticleService: get_article_info, list_articles, get_article, save_article *)

filepath_exists(fs, article_id) == article_id \in DOMAIN fs

\* an article that always carries the default metadata
get_article_info_defaults(md, fs, article_id) ==
    LET content == IF filepath_exists(fs, article_id) THEN fs[article_id] ELSE <<>>
        m == load_article_metadata(md, article_id)
    IN  [md  |-> m.md,
         ret |-> [id          |-> article_id,
                  filename    |-> <<article_id, ".md">>,
                  title       |-> IF content # <<>> THEN extract_title(content) ELSE Untitled,
                  wordCount   |-> IF content # <<>> THEN count_words(content) ELSE 0,
                  status      |-> "draft",
                  publishDate |-> None,
                  sources     |-> <<>>,
                  wordGoal    |-> 1000,
                  content     |-> content]]

\* lines 59-80
get_article_info(md, fs, article_id) ==
    LET content == IF filepath_exists(fs, article_id) THEN fs[article_id] ELSE <<>>
        m == load_article_metadata(md, article_id)
    IN  [md  |-> m.md,
         ret |-> [id          |-> article_id,
                  filename    |-> <<article_id, ".md">>,
                  title       |-> IF content # <<>> THEN extract_title(content) ELSE Untitled,
                  wordCount   |-> IF content # <<>> THEN count_words(content) ELSE 0,
                  status      |-> m.ret.status,
                  publishDate |-> m.ret.publishDate,
                  sources     |-> m.ret.sources,
                  wordGoal    |-> m.ret.wordGoal,
                  content     |-> content]]

\* mutant: the existence check of the file is left out
get_article_unchecked(md, fs, article_id) ==
    LET r == get_article_info(md, fs, article_id)
    IN  [md |-> r.md, ret |-> Some(r.ret)]

\* lines 107-112
get_article(md, fs, article_id) ==
    IF ~filepath_exists(fs, article_id)
    THEN [md |-> md, ret |-> None]
    ELSE LET r == get_article_info(md, fs, article_id)
         IN  [md |-> r.md, ret |-> Some(r.ret)]

\* the summary list_articles keeps of an article (lines 92-100)
summary(info) ==
    [id |-> info.id, filename |-> info.filename, title |-> info.title,
     wordCount |-> info.wordCount, status |-> info.status,
     publishDate |-> info.publishDate, wordGoal |-> info.wordGoal]

\* sorted(DRAFTS_DIR.glob("*.md")), then get_article_info of each in turn
RECURSIVE list_loop(_, _, _, _)
list_loop(md, fs, paths, articles) ==
    IF paths = <<>> THEN [md |-> md, ret |-> articles]
    ELSE LET r == get_article_info(md, fs, Head(paths))
         IN  list_loop(r.md, fs, Tail(paths), Append(articles, summary(r.ret)))

list_articles(md, fs) ==
    list_loop(md, fs, SelectSeq(IdOrder, LAMBDA i : i \in DOMAIN fs), <<>>)

\* save_article, lines 122-134: the text written to the file
new_content(title, content) ==
    IF title # None /\ Val(title) # <<>>
    THEN rewrite_title(Val(title), Val(content))
    ELSE Val(content)

\* mutant: sources are tested for truth, not for None, so an empty list is not applied
apply_fields_truthy(metadata, status, sources, publishDate, wordGoal) ==
    [status      |-> IF status # None THEN Val(status) ELSE metadata.status,
     sources     |-> IF sources # None /\ Val(sources) # <<>>
                     THEN Val(sources) ELSE metadata.sources,
     publishDate |-> IF publishDate # None THEN publishDate ELSE metadata.publishDate,
     wordGoal    |-> IF wordGoal # None THEN Val(wordGoal) ELSE metadata.wordGoal]

\* save_article, lines 137-145: the partial update of the metadata record
apply_fields(metadata, status, sources, publishDate, wordGoal) ==
    [status      |-> IF status # None THEN Val(status) ELSE metadata.status,
     sources     |-> IF sources # None THEN Val(sources) ELSE metadata.sources,
     publishDate |-> IF publishDate # None THEN publishDate ELSE metadata.publishDate,
     wordGoal    |-> IF wordGoal # None THEN Val(wordGoal) ELSE metadata.wordGoal]

save_article(md, fs, article_id, title, content, status, sources, publishDate, wordGoal) ==
    LET fs1 == IF content # None
               THEN Put(fs, article_id, new_content(title, content))
               ELSE fs
        m   == load_article_metadata(md, article_id)
        md1 == save_article_metadata(m.md, article_id,
                   apply_fields(m.ret, status, sources, publishDate, wordGoal))
        r   == get_article_info(md1, fs1, article_id)
    IN  [md |-> r.md, fs |-> fs1, ret |-> r.ret]

-----------------------------------------------------------------------------
(* Status change, schedule, bulk schedule, delete: the bodies of the handlers *)

valid_statuses == {"draft", "review", "scheduled", "published"}

\* a handler that asks only for some status
status_rejected_absent_only(new_status) == new_status = None

\* line 279: new_status not in valid_statuses (an absent status is None)
status_rejected(new_status) == new_status = None \/ Val(new_status) \notin valid_statuses

\* mutant: the publish date is written whatever was supplied, as the schedule endpoint does
apply_status_unconditional(metadata, new_status, publishDate) ==
    [metadata EXCEPT !.status = Val(new_status), !.publishDate = publishDate]

\* mutant: a status that is already set is toggled back to draft
apply_status_toggle(metadata, new_status, publishDate) ==
    [metadata EXCEPT !.status = IF @ = Val(new_status) THEN "draft" ELSE Val(new_status),
                     !.publishDate = IF Truthy(publishDate) THEN publishDate ELSE @]

\* lines 284-286
apply_status(metadata, new_status, publishDate) ==
    [metadata EXCEPT !.status = Val(new_status),
                     !.publishDate = IF Truthy(publishDate) THEN publishDate ELSE @]

\* mutant: the record is loaded (and its defaults inserted) before the status is validated
post_status_load_first(md, article_id, new_status, publishDate) ==
    LET m == load_article_metadata(md, article_id)
    IN  IF status_rejected(new_status)
        THEN [md |-> m.md, resp |-> Error("400", "Invalid status")]
        ELSE [md   |-> save_article_metadata(m.md, article_id,
                           apply_status(m.ret, new_status, publishDate)),
              resp |-> Response("200", [success |-> TRUE, status |-> new_status,
                                        publishDate |-> publishDate])]

\* lines 274-290: the status endpoint, validation first
post_status(md, article_id, new_status, publishDate) ==
    IF status_rejected(new_status)
    THEN [md |-> md, resp |-> Error("400", "Invalid status")]
    ELSE LET m == load_article_metadata(md, article_id)
         IN  [md   |-> save_article_metadata(m.md, article_id,
                           apply_status(m.ret, new_status, publishDate)),
              resp |-> Response("200", [success |-> TRUE, status |-> new_status,
                                        publishDate |-> publishDate])]

\* lines 300-301
apply_schedule(metadata, publishDate) ==
    [metadata EXCEPT !.publishDate = publishDate, !.status = "scheduled"]

\* lines 351-358: the walk over the batch; raised is the ValueError of replace
RECURSIVE bulk_loop(_, _, _, _, _)
bulk_loop(md, articles, currentDate, intervalDays, results) ==
    IF articles = <<>> THEN [md |-> md, results |-> results, raised |-> FALSE]
    ELSE LET article_id  == Head(articles)
             publishDate == Some(isoformat16(currentDate))
             m   == load_article_metadata(md, article_id)
             md1 == save_article_metadata(m.md, article_id,
                        [m.ret EXCEPT !.status = "scheduled", !.publishDate = publishDate])
             results1 == Append(results, [id |-> article_id, publishDate |-> publishDate])
             day1 == currentDate.day + intervalDays
         IN  IF replace_day_ok(currentDate, day1)
             THEN bulk_loop(md1, Tail(articles), replace_day(currentDate, day1),
                            intervalDays, results1)
             ELSE [md |-> md1, results |-> results1, raised |-> TRUE]

\* a handler that asks only for the start date
bulk_rejected_date_only(articles, startDate) == ~Truthy(startDate)

\* line 344: not articles or not startDate
bulk_rejected(articles, startDate) == articles = <<>> \/ ~Truthy(startDate)

\* lines 382-400: the reminders of one listed article
notifications_of(article, now) ==
    IF Truthy(article.publishDate)
    THEN LET publishDate == fromisoformat(Val(article.publishDate))
             daysUntil   == timedelta_days(publishDate, now)
             reminder(title) ==
                 [type |-> "reminder", title |-> title, article |-> article.title,
                  date |-> Val(article.publishDate)]
         IN  IF daysUntil = 1 THEN <<reminder("Publishing Tomorrow")>>
             ELSE IF daysUntil = 7 THEN <<reminder("Publishing in 1 Week")>>
             ELSE <<>>
    ELSE <<>>

\* lines 381-400: the loop over the listed articles
RECURSIVE notifications_loop(_, _, _)
notifications_loop(articles, now, notifications) ==
    IF articles = <<>> THEN notifications
    ELSE notifications_loop(Tail(articles), now,
                            notifications \o notifications_of(Head(articles), now))

\* a delete that empties the overlay
delete_article_all(md, fs, article_id) ==
    IF filepath_exists(fs, article_id)
    THEN [md |-> EmptyMap, fs |-> Pop(fs, article_id), existed |-> TRUE]
    ELSE [md |-> md, fs |-> fs, existed |-> FALSE]

\* lines 422-425: the file is unlinked and the record popped only if the file exists
delete_article(md, fs, article_id) ==
    IF filepath_exists(fs, article_id)
    THEN [md |-> Pop(md, article_id), fs |-> Pop(fs, article_id), existed |-> TRUE]
    ELSE [md |-> md, fs |-> fs, existed |-> FALSE]


-----------------------------------------------------------------------------
(* The requests the clients send.  A run is of one scenario, which bounds the  *)
(* arguments of every handler; every handler is called in every scenario.      *)

MaxBatch == 2       \* longest id list of a bulk-schedule request (scenario "bulk")
MaxInterval == 2    \* largest intervalDays of a bulk-schedule request (scenario "bulk")

Jan27 == IsoStr("minute", 2024, 1, 27, 10, 30, 0)    \* "2024-01-27T10:30"
Dec30 == IsoStr("second", 2024, 12, 30, 23, 59, 45)  \* "2024-12-30T23:59:45"
Feb03 == IsoStr("date", 2024, 2, 3, 0, 0, 0)           \* "2024-02-03"
Mar01 == IsoStr("minute", 2024, 3, 1, 0, 0, 0)         \* "2024-03-01T00:00"

\* readings of datetime.now()
Clock(y, mo, d, h, mi, sec) ==
    [year |-> y, month |-> mo, day |-> d, hour |-> h, minute |-> mi, second |-> sec]
Noon26 == Clock(2024, 1, 26, 12, 0, 0)
Nows ==
    {Clock(2024, 1, 26, 10, 30, 0),    \* Jan27 is 1 day away to the second
     Clock(2024, 1, 26, 10, 30, 1),    \* 23:59:59 away
     Clock(2024, 1, 25, 10, 30, 1),    \* 1 day 23:59:59 away
     Clock(2024, 1, 25, 10, 30, 0),    \* 2 days away
     Clock(2024, 1, 20, 10, 30, 0),    \* 7 days away
     Clock(2024, 1, 27, 0, 0, 0),      \* Feb03 is 7 days away
     Clock(2024, 1, 28, 9, 0, 0),      \* Jan27 is past
     Clock(2024, 2, 28, 23, 59, 59),   \* Mar01 is 1 day and 1 second away
     Clock(2024, 2, 29, 0, 0, 1),      \* 23:59:59 away
     Clock(2023, 12, 31, 10, 30, 0)}   \* the year before

\* the metadata arguments of an update request
Patch(status, sources, publishDate, wordGoal) ==
    [status |-> status, sources |-> sources, publishDate |-> publishDate,
     wordGoal |-> wordGoal]
NoPatch == Patch(None, None, None, None)

TextT == <<"T">>
TextX == <<"x">>
TextHeadings == <<"#", " ", "U", NL, "x", " ", "y", NL, "#", " ", "W">>
EditTitles == {None, Some(<<>>), Some(TextT), Some(<<" ", "T">>),
               Some(<<"T", NL, "#", " ", "V">>)}
EditContents == {None, Some(<<>>), Some(TextX), Some(TextHeadings)}

SeqsUpTo(S, n) == UNION {[1..k -> S] : k \in 0..n}

Workflow ==
    [ids |-> {"a", "b"}, createIds |-> {"a"},
     titles |-> {None}, contents |-> {None},
     createTitles |-> {None}, createContents |-> {None},
     patches |-> {NoPatch, Patch(None, Some(<<"s1">>), None, Some(500))},
     newStatuses |-> {None, Some("bogus"), Some("review"), Some("scheduled")},
     statusDates |-> {None, Some(EmptyStr), Some(Jan27)},
     scheduleDates |-> {None, Some(Jan27)},
     batches |-> {<<>>, <<"a">>}, startDates |-> {None, Some(Jan27)}, intervals |-> {0},
     nows |-> {Noon26}]

Fields ==
    [ids |-> {"a"}, createIds |-> {"a"},
     titles |-> {None, Some(TextT)}, contents |-> {None, Some(TextX)},
     createTitles |-> {None}, createContents |-> {Some(TextX)},
     patches |-> {Patch(st, so, pd, wg) :
                     st \in {None, Some("bogus")},
                     so \in {None, Some(<<>>), Some(<<"s1">>)},
                     pd \in {None, Some(EmptyStr)},
                     wg \in {None, Some(500)}},
     newStatuses |-> {Some("bogus")},
     statusDates |-> {None},
     scheduleDates |-> {Some(Jan27)},
     batches |-> {<<>>, <<"a">>}, startDates |-> {Some(Jan27)}, intervals |-> {0},
     nows |-> {Noon26}]

Edit ==
    [ids |-> {"a"}, createIds |-> {"a"},
     titles |-> EditTitles, contents |-> EditContents,
     createTitles |-> EditTitles, createContents |-> EditContents,
     patches |-> {NoPatch},
     newStatuses |-> {Some("bogus")},
     statusDates |-> {None},
     scheduleDates |-> {Some(Jan27)},
     batches |-> {<<>>}, startDates |-> {Some(Jan27)}, intervals |-> {0},
     nows |-> {Noon26}]

Bulk ==
    [ids |-> {"a"}, createIds |-> {"a"},
     titles |-> {None}, contents |-> {None},
     createTitles |-> {None}, createContents |-> {None},
     patches |-> {NoPatch},
     newStatuses |-> {Some("bogus")},
     statusDates |-> {None},
     scheduleDates |-> {None},
     batches |-> SeqsUpTo(Ids, MaxBatch),
     startDates |-> {None, Some(EmptyStr), Some(Jan27), Some(Dec30)},
     intervals |-> 0..MaxInterval,
     nows |-> {Noon26}]

Remind ==
    [ids |-> {"a", "b"}, createIds |-> {"a", "b"},
     titles |-> {None}, contents |-> {None},
     createTitles |-> {None}, createContents |-> {None},
     patches |-> {NoPatch},
     newStatuses |-> {Some("bogus")},
     statusDates |-> {None},
     scheduleDates |-> {Some(EmptyStr), Some(Jan27), Some(Feb03), Some(Mar01)},
     batches |-> {<<>>}, startDates |-> {Some(Jan27)}, intervals |-> {0},
     nows |-> Nows]

req ==
    CASE scenario = "workflow" -> Workflow
      [] scenario = "fields"   -> Fields
      [] scenario = "edit"     -> Edit
      [] scenario = "bulk"     -> Bulk
      [] scenario = "remind"   -> Remind

-----------------------------------------------------------------------------
(* The handlers, each run alone from request to response *)

\* the request of a record of last: its operation and arguments
Request(r) == [x \in DOMAIN r \ {"resp", "again"} |-> r[x]]

\* again: the request repeats the one handled just before it
Stamp(n) == n @@ [again |-> Request(n) = Request(last)]

NThreads == 2       \* request-handling threads (specification ThreadSpec)
Threads == 1..NThreads
NoThread == 0

\* the local variables of a thread that handles no request
Idle ==
    [op |-> "none", id |-> "none", status |-> None, patch |-> NoPatch,
     metadata |-> None, miss |-> FALSE, after |-> "none", resp |-> "none"]

ThreadsIdle ==
    /\ pc = [t \in Threads |-> "idle"]
    /\ lock = NoThread
    /\ local = [t \in Threads |-> Idle]
    /\ written = {}
    /\ objects = EmptyMap
    /\ refs = EmptyMap
    /\ held = 0

InitOf(sc) ==
    /\ article_metadata = EmptyMap
    /\ files = EmptyMap
    /\ last = [op |-> "start", again |-> FALSE]
    /\ scenario = sc
    /\ ThreadsIdle

\* GET /api/articles
ListArticles ==
    LET r == list_articles(article_metadata, files)
    IN  /\ article_metadata' = r.md
        /\ UNCHANGED <<files, fixed>>
        /\ last' = Stamp([op |-> "list", resp |-> Response("200", [articles |-> r.ret])])

\* GET /api/articles/<id>
GetArticle ==
    \E article_id \in req.ids :
        LET r == get_article(article_metadata, files, article_id)
        IN  /\ article_metadata' = r.md
            /\ UNCHANGED <<files, fixed>>
            /\ last' = Stamp([op |-> "get", id |-> article_id,
                        resp |-> IF r.ret # None
                                 THEN Response("200", Val(r.ret))
                                 ELSE Error("404", "Article not found")])

\* GET /api/articles/status/<id>
GetStatus ==
    \E article_id \in req.ids :
        LET m == load_article_metadata(article_metadata, article_id)
        IN  /\ article_metadata' = m.md
            /\ UNCHANGED <<files, fixed>>
            /\ last' = Stamp([op |-> "getStatus", id |-> article_id,
                        resp |-> Response("200", [status |-> m.ret.status])])

\* POST /api/articles: title defaults to "Untitled", content to the stub text
CreateArticle ==
    \E article_id \in req.createIds, title \in req.createTitles,
       content \in req.createContents :
        LET title1   == IF title = None THEN Untitled ELSE Val(title)
            content1 == IF content = None
                        THEN <<"#", " ">> \o title1 \o <<NL, NL>> \o StartWriting
                        ELSE Val(content)
            r == save_article(article_metadata, files, article_id, Some(title1),
                              Some(content1), Some("draft"), None, None, None)
        IN  /\ article_metadata' = r.md
            /\ files' = r.fs
            /\ UNCHANGED fixed
            /\ last' = Stamp([op |-> "create", id |-> article_id,
                        title |-> title, content |-> content,
                        resp |-> Response("201", [success |-> TRUE, article |-> r.ret])])

\* POST /api/articles/<id>/update
UpdateArticle ==
    \E article_id \in req.ids, title \in req.titles, content \in req.contents,
       patch \in req.patches :
        LET r == save_article(article_metadata, files, article_id, title, content,
                              patch.status, patch.sources, patch.publishDate,
                              patch.wordGoal)
        IN  /\ article_metadata' = r.md
            /\ files' = r.fs
            /\ UNCHANGED fixed
            /\ last' = Stamp([op |-> "update", id |-> article_id,
                        title |-> title, content |-> content, patch |-> patch,
                        resp |-> Response("200", [success |-> TRUE, article |-> r.ret])])

\* POST /api/articles/<id>/status
SetStatus ==
    \E article_id \in req.ids, new_status \in req.newStatuses,
       publishDate \in req.statusDates :
        LET r == post_status(article_metadata, article_id, new_status, publishDate)
        IN  /\ article_metadata' = r.md
            /\ UNCHANGED <<files, fixed>>
            /\ last' = Stamp([op |-> "setStatus", id |-> article_id,
                              status |-> new_status, publishDate |-> publishDate,
                              resp |-> r.resp])

\* POST /api/articles/<id>/schedule
ScheduleArticle ==
    \E article_id \in req.ids, publishDate \in req.scheduleDates :
        LET m == load_article_metadata(article_metadata, article_id)
        IN  /\ article_metadata' = save_article_metadata(m.md, article_id,
                    apply_schedule(m.ret, publishDate))
            /\ UNCHANGED <<files, fixed>>
            /\ last' = Stamp([op |-> "schedule", id |-> article_id, publishDate |-> publishDate,
                        resp |-> Response("200",
                            [success |-> TRUE, publishDate |-> publishDate])])

\* POST /api/bulk-schedule; a ValueError of replace leaves do_POST with no response
BulkSchedule ==
    \E articles \in req.batches, startDate \in req.startDates,
       intervalDays \in req.intervals :
        /\ UNCHANGED <<files, fixed>>
        /\ IF bulk_rejected(articles, startDate)
           THEN /\ UNCHANGED article_metadata
                /\ last' = Stamp([op |-> "bulkSchedule", articles |-> articles,
                            startDate |-> startDate, intervalDays |-> intervalDays,
                            resp |-> Error("400", "Articles and start date required")])
           ELSE LET r == bulk_loop(article_metadata, articles,
                                   fromisoformat(Val(startDate)), intervalDays, <<>>)
                IN  /\ article_metadata' = r.md
                    /\ last' = Stamp([op |-> "bulkSchedule", articles |-> articles,
                                startDate |-> startDate, intervalDays |-> intervalDays,
                                resp |-> IF r.raised
                                         THEN Response("ValueError", [partial |-> r.results])
                                         ELSE Response("200",
                                             [success |-> TRUE, scheduled |-> r.results])])

\* DELETE /api/articles/<id>
DeleteArticle ==
    \E article_id \in req.ids :
        LET r == delete_article(article_metadata, files, article_id)
        IN  /\ article_metadata' = r.md
            /\ files' = r.fs
            /\ UNCHANGED fixed
            /\ last' = Stamp([op |-> "delete", id |-> article_id,
                        resp |-> IF r.existed
                                 THEN Response("200",
                                     [success |-> TRUE, message |-> "Article deleted"])
                                 ELSE Error("404", "Article not found")])

\* POST /api/notifications, with now the reading of datetime.now()
Notifications ==
    \E now \in req.nows :
        LET r == list_articles(article_metadata, files)
        IN  /\ article_metadata' = r.md
            /\ UNCHANGED <<files, fixed>>
            /\ last' = Stamp([op |-> "notifications", now |-> now,
                        resp |-> Response("200",
                            [notifications |-> notifications_loop(r.ret, now, <<>>)])])

Next ==
    \/ ListArticles
    \/ GetArticle
    \/ GetStatus
    \/ CreateArticle
    \/ UpdateArticle
    \/ SetStatus
    \/ ScheduleArticle
    \/ BulkSchedule
    \/ DeleteArticle
    \/ Notifications

Spec == InitOf("workflow") /\ [][Next]_vars
FieldsSpec == InitOf("fields") /\ [][Next]_vars
EditSpec == InitOf("edit") /\ [][Next]_vars
BulkSpec == InitOf("bulk") /\ [][Next]_vars
RemindSpec == InitOf("remind") /\ [][Next]_vars


-----------------------------------------------------------------------------
(* The handlers run by several threads at once.  A step is what a thread does  *)
(* between two points where another thread can run and see or change the       *)
(* overlay or the files: each statement under cache_lock, each file operation.  *)
(* The drafts directory holds a.md when the server starts; the overlay is empty.*)

ThreadIds == {"a"}
ThreadRequests ==
    {[op |-> "getStatus", id |-> i, status |-> None, patch |-> NoPatch] : i \in ThreadIds}
    \cup {[op |-> "setStatus", id |-> i, status |-> st, patch |-> NoPatch] :
            i \in ThreadIds, st \in {Some("review"), Some("bogus")}}
    \cup {[op |-> "update", id |-> i, status |-> None,
           patch |-> Patch(None, None, None, Some(500))] : i \in ThreadIds}
    \cup {[op |-> "delete", id |-> i, status |-> None, patch |-> NoPatch] : i \in ThreadIds}

ThreadInit ==
    /\ article_metadata = EmptyMap
    /\ files = [i \in {"a"} |-> TextX]
    /\ last = [op |-> "start", again |-> FALSE]
    /\ scenario = "threads"
    /\ ThreadsIdle

\* mutant: the lock is taken without waiting for its holder
can_acquire_always(holder) == TRUE

\* with cache_lock: a thread enters when no thread holds the lock
can_acquire(holder) == holder = NoThread

Goto(t, place) == pc' = [pc EXCEPT ![t] = place]

\* a thread takes a request; the status endpoint validates before any overlay call
Start ==
    \E t \in Threads, r \in ThreadRequests :
        /\ pc[t] = "idle"
        /\ LET rejected == r.op = "setStatus" /\ status_rejected(r.status)
           IN  /\ local' = [local EXCEPT ![t] =
                      [Idle EXCEPT !.op = r.op, !.id = r.id, !.status = r.status,
                                   !.patch = r.patch,
                                   !.after = IF r.op = "getStatus" THEN "done"
                                             ELSE "save_lock",
                                   !.resp = IF rejected THEN "400" ELSE "none"]]
               /\ Goto(t, IF rejected THEN "done"
                          ELSE IF r.op = "delete" THEN "del_exists"
                          ELSE "load_lock")
        /\ UNCHANGED <<article_metadata, files, last, scenario, heap, lock, written>>

\* with cache_lock, in load_article_metadata, save_article_metadata and do_DELETE
Acquire ==
    \E t \in Threads :
        /\ pc[t] \in {"load_lock", "save_lock", "pop_lock"}
        /\ can_acquire(lock)
        /\ lock' = t
        /\ Goto(t, CASE pc[t] = "load_lock" -> "load_check"
                     [] pc[t] = "save_lock" -> "save_store"
                     [] pc[t] = "pop_lock"  -> "pop")
        /\ UNCHANGED <<article_metadata, files, last, scenario, heap, local, written>>

\* line 43: if article_id not in article_metadata
LoadCheck ==
    \E t \in Threads :
        /\ pc[t] = "load_check"
        /\ LET miss == local[t].id \notin DOMAIN article_metadata
           IN  /\ local' = [local EXCEPT ![t].miss = miss]
               /\ Goto(t, IF miss THEN "load_insert" ELSE "load_copy")
        /\ UNCHANGED <<article_metadata, files, last, scenario, heap, lock, written>>

\* lines 44-49: the defaults are stored
LoadInsert ==
    \E t \in Threads :
        /\ pc[t] = "load_insert"
        /\ article_metadata' = Put(article_metadata, local[t].id, DefaultMetadata)
        /\ Goto(t, "load_copy")
        /\ UNCHANGED <<files, last, scenario, heap, lock, local, written>>

\* line 50: the copy is returned and the lock released; a KeyError if a thread
\* that did not wait for the lock has popped the record meanwhile
LoadCopy ==
    \E t \in Threads :
        /\ pc[t] = "load_copy"
        /\ IF local[t].id \in DOMAIN article_metadata
           THEN /\ local' = [local EXCEPT
                       ![t].metadata = Some(article_metadata[local[t].id]),
                       ![t].after = "done",
                       ![t].resp = IF local[t].after = "done" THEN "200" ELSE @]
                /\ Goto(t, local[t].after)
           ELSE /\ local' = [local EXCEPT ![t].resp = "KeyError"]
                /\ Goto(t, "done")
        /\ lock' = NoThread
        /\ UNCHANGED <<article_metadata, files, last, scenario, heap, written>>

\* line 56 under the lock: the record the handler built from its copy is stored
\* (lines 284-287 for the status endpoint, 138-146 for save_article, which then
\* goes on to get_article_info and its load)
SaveStore ==
    \E t \in Threads :
        /\ pc[t] = "save_store"
        /\ LET m == Val(local[t].metadata)
               p == local[t].patch
               metadata == IF local[t].op = "setStatus"
                           THEN apply_status(m, local[t].status, None)
                           ELSE apply_fields(m, p.status, p.sources, p.publishDate,
                                             p.wordGoal)
           IN  article_metadata' = save_article_metadata(article_metadata, local[t].id,
                                                         metadata)
        /\ written' = written \cup {local[t].id}
        /\ lock' = NoThread
        /\ IF local[t].op = "setStatus"
           THEN /\ local' = [local EXCEPT ![t].resp = "200"]
                /\ Goto(t, "done")
           ELSE /\ UNCHANGED local
                /\ Goto(t, "load_lock")
        /\ UNCHANGED <<files, last, scenario, heap>>

\* line 422: if filepath.exists()
DeleteExists ==
    \E t \in Threads :
        /\ pc[t] = "del_exists"
        /\ IF filepath_exists(files, local[t].id)
           THEN /\ Goto(t, "del_unlink")
                /\ UNCHANGED local
           ELSE /\ Goto(t, "done")
                /\ local' = [local EXCEPT ![t].resp = "404"]
        /\ UNCHANGED <<article_metadata, files, last, scenario, heap, lock, written>>

\* line 423: filepath.unlink(), a FileNotFoundError if the file is gone by now
DeleteUnlink ==
    \E t \in Threads :
        /\ pc[t] = "del_unlink"
        /\ IF filepath_exists(files, local[t].id)
           THEN /\ files' = Pop(files, local[t].id)
                /\ Goto(t, "pop_lock")
                /\ UNCHANGED local
           ELSE /\ UNCHANGED files
                /\ Goto(t, "done")
                /\ local' = [local EXCEPT ![t].resp = "FileNotFoundError"]
        /\ UNCHANGED <<article_metadata, last, scenario, heap, lock, written>>

\* line 425 under the lock: article_metadata.pop(article_id, None)
DeletePop ==
    \E t \in Threads :
        /\ pc[t] = "pop"
        /\ article_metadata' = Pop(article_metadata, local[t].id)
        /\ written' = written \cup {local[t].id}
        /\ lock' = NoThread
        /\ local' = [local EXCEPT ![t].resp = "200"]
        /\ Goto(t, "done")
        /\ UNCHANGED <<files, last, scenario, heap>>

\* the response is sent and the thread is free for the next request
Finish ==
    \E t \in Threads :
        /\ pc[t] = "done"
        /\ local' = [local EXCEPT ![t] = Idle]
        /\ Goto(t, "idle")
        /\ UNCHANGED <<article_metadata, files, last, scenario, heap, lock, written>>

ThreadNext ==
    \/ Start
    \/ Acquire
    \/ LoadCheck
    \/ LoadInsert
    \/ LoadCopy
    \/ SaveStore
    \/ DeleteExists
    \/ DeleteUnlink
    \/ DeletePop
    \/ Finish

ThreadSpec == ThreadInit /\ [][ThreadNext]_vars

-----------------------------------------------------------------------------
(* The overlay as Python objects.  A metadata record is a dict whose sources   *)
(* field refers to a list; article_metadata maps an id to a dict.  A caller of *)
(* the module's functions keeps the dict it passed or was returned and may     *)
(* change it.  article_metadata is the overlay read through the references.    *)

MaxObjects == 8     \* dict and list objects allocated in a run
MaxListLen == 2     \* longest source list

AliasIds == {"a"}

ListObj(items) == [kind |-> "list", items |-> items]
DictObj(status, publishDate, sources, wordGoal) ==
    [kind |-> "dict", status |-> status, publishDate |-> publishDate,
     sources |-> sources, wordGoal |-> wordGoal]

Size(objs) == Cardinality(DOMAIN objs)
Room(n) == Size(objects) + n <= MaxObjects

\* the records the references stand for
Deref(rf, objs) ==
    [i \in DOMAIN rf |->
        [status      |-> objs[rf[i]].status,
         publishDate |-> objs[rf[i]].publishDate,
         sources     |-> objs[objs[rf[i]].sources].items,
         wordGoal    |-> objs[rf[i]].wordGoal]]

\* lines 42-50: a miss stores a new dict with a new empty list; the return value
\* is dict.copy(), a new dict whose fields refer to the same objects
load_refs(objs, rf, article_id) ==
    LET n     == Size(objs)
        miss  == article_id \notin DOMAIN rf
        objs1 == IF miss
                 THEN Put(Put(objs, n + 1, ListObj(<<>>)),
                          n + 2, DictObj("draft", None, n + 1, 1000))
                 ELSE objs
        rf1   == IF miss THEN Put(rf, article_id, n + 2) ELSE rf
        copy  == Size(objs1) + 1
    IN  [objects |-> Put(objs1, copy, objs1[rf1[article_id]]), refs |-> rf1, ret |-> copy]

\* lines 68-80: the article dict; its sources is metadata.get("sources", []), the
\* list the copy refers to
info_refs(objs, rf, article_id) ==
    LET m == load_refs(objs, rf, article_id)
        article == Size(m.objects) + 1
    IN  [objects |-> Put(m.objects, article, m.objects[m.ret]), refs |-> m.refs,
         ret |-> article]

AliasInit ==
    /\ article_metadata = EmptyMap
    /\ files = EmptyMap
    /\ last = [op |-> "start", again |-> FALSE]
    /\ scenario = "callers"
    /\ ThreadsIdle

Called(op, objs, rf, ret) ==
    /\ objects' = objs
    /\ refs' = rf
    /\ held' = ret
    /\ article_metadata' = Deref(rf, objs)
    /\ last' = [op |-> op, again |-> FALSE]
    /\ UNCHANGED <<files, scenario, threads>>

\* a caller calls load_article_metadata and keeps the record returned
CallLoad ==
    \E article_id \in AliasIds :
        /\ Room(3)
        /\ LET r == load_refs(objects, refs, article_id)
           IN  Called("load", r.objects, r.refs, r.ret)

\* a caller builds a record, passes it to save_article_metadata (line 56 stores
\* the object passed) and keeps it
CallSave ==
    \E article_id \in AliasIds :
        /\ Room(2)
        /\ LET n    == Size(objects)
               objs == Put(Put(objects, n + 1, ListObj(<<"s1">>)),
                           n + 2, DictObj("review", None, n + 1, 1000))
           IN  Called("save", objs, Put(refs, article_id, n + 2), n + 2)

\* a caller calls get_article_info (as get_article does) and keeps the article
CallGetInfo ==
    \E article_id \in AliasIds :
        /\ Room(4)
        /\ LET r == info_refs(objects, refs, article_id)
           IN  Called("info", r.objects, r.refs, r.ret)

\* a caller calls save_article with a source list of its own and keeps the
\* article returned: lines 137-148, the copy gets the caller's list and is stored
CallSaveArticle ==
    \E article_id \in AliasIds :
        /\ Room(5)
        /\ LET n     == Size(objects)
               objs0 == Put(objects, n + 1, ListObj(<<"s1">>))
               m     == load_refs(objs0, refs, article_id)
               objs1 == [m.objects EXCEPT ![m.ret].sources = n + 1]
               r     == info_refs(objs1, Put(m.refs, article_id, m.ret), article_id)
           IN  Called("saveArticle", r.objects, r.refs, r.ret)

\* the caller assigns to a field of the dict it holds
CallerSetsField ==
    /\ held # 0
    /\ objects[held].status # "changed"
    /\ Called("callerSetsField", [objects EXCEPT ![held].status = "changed"], refs, held)

\* the caller appends to the sources list of the dict it holds
CallerAppends ==
    /\ held # 0
    /\ LET l == objects[held].sources
       IN  /\ Len(objects[l].items) < MaxListLen
           /\ Called("callerAppends",
                     [objects EXCEPT ![l].items = Append(@, "mine")], refs, held)

AliasNext ==
    \/ CallLoad
    \/ CallSave
    \/ CallGetInfo
    \/ CallSaveArticle
    \/ CallerSetsField
    \/ CallerAppends

AliasSpec == AliasInit /\ [][AliasNext]_vars

-----------------------------------------------------------------------------
(* Claims about the status endpoint and delete (specification Spec) *)

\* the fixed status set, as the specification lists it
FixedStatuses == {"draft", "review", "scheduled", "published"}

\* the record of an id as a reader sees it: the stored one, or the defaults
RecordOf(md, article_id) ==
    IF article_id \in DOMAIN md THEN md[article_id]
    ELSE [status |-> "draft", publishDate |-> None, sources |-> <<>>, wordGoal |-> 1000]

\* C1: a setStatus whose status is absent or outside the fixed set answers
\* InvalidStatus (400 "Invalid status") and leaves the overlay, and so the record
\* of the id, exactly as it was, whatever publishDate came with it.
C1_InvalidStatusRejected ==
    [][(last'.op = "setStatus"
            /\ (last'.status = None \/ Val(last'.status) \notin FixedStatuses))
        => /\ last'.resp = Error("400", "Invalid status")
           /\ article_metadata' = article_metadata
           /\ files' = files]_vars

\* C1 witness: a bogus status with a publish date was refused for an id whose
\* record holds a non-default status
C1_Witness ==
    /\ last.op = "setStatus"
    /\ last.status = Some("bogus")
    /\ last.publishDate = Some(Jan27)
    /\ last.resp.code = "400"
    /\ last.id \in DOMAIN article_metadata
    /\ article_metadata[last.id].status = "review"
    /\ article_metadata[last.id].publishDate = None

\* C3: a successful setStatus sets the status; it sets publishDate to the supplied
\* value only if that is non-empty and otherwise keeps the value from before the
\* call; sources and wordGoal are as before the call.
C3_SetStatusFrame ==
    [][(last'.op = "setStatus" /\ last'.resp.code = "200")
        => LET before == RecordOf(article_metadata, last'.id)
               after  == article_metadata'[last'.id]
               given  == last'.publishDate
           IN  /\ last'.id \in DOMAIN article_metadata'
               /\ after.status = Val(last'.status)
               /\ after.publishDate =
                      IF given # None /\ Val(given) # EmptyStr
                      THEN given ELSE before.publishDate
               /\ after.sources = before.sources
               /\ after.wordGoal = before.wordGoal]_vars

\* C3 witness: a setStatus with an empty publishDate succeeded on a record that
\* keeps its earlier publish date, sources and word goal
C3_Witness ==
    /\ last.op = "setStatus"
    /\ last.resp.code = "200"
    /\ last.publishDate = Some(EmptyStr)
    /\ last.id \in DOMAIN article_metadata
    /\ article_metadata[last.id] =
           [status |-> "review", publishDate |-> Some(Jan27),
            sources |-> <<"s1">>, wordGoal |-> 500]

\* C10: a setStatus with a valid status, repeated at once with the same arguments,
\* changes neither the overlay nor the documents the second time.
C10_SetStatusIdempotent ==
    [][(/\ last.op = "setStatus" /\ last'.op = "setStatus"
        /\ Request(last') = Request(last)
        /\ last.status # None /\ Val(last.status) \in FixedStatuses)
        => /\ article_metadata' = article_metadata
           /\ files' = files]_vars

\* C10 witness: the same valid setStatus was handled twice in a row, the first
\* of the two having changed the record
C10_Witness ==
    /\ last.op = "setStatus"
    /\ last.again
    /\ last.resp.code = "200"
    /\ last.status = Some("review")
    /\ last.publishDate = Some(Jan27)
    /\ article_metadata[last.id].status = "review"
    /\ article_metadata[last.id].sources = <<"s1">>

\* C4 (as claimed): after a delete of an id there is neither a document nor a
\* metadata record of that id, whichever of the two existed before.
C4_DeleteRemovesBoth ==
    last.op = "delete"
        => last.id \notin DOMAIN files /\ last.id \notin DOMAIN article_metadata

-----------------------------------------------------------------------------
(* Claims about bulk scheduling (specification BulkSpec) *)

\* the day after dt on the calendar
NextDay(dt) ==
    IF dt.day < DaysInMonth(dt.year, dt.month) THEN [dt EXCEPT !.day = @ + 1]
    ELSE IF dt.month < 12 THEN [dt EXCEPT !.month = @ + 1, !.day = 1]
    ELSE [dt EXCEPT !.year = @ + 1, !.month = 1, !.day = 1]

\* dt advanced by n calendar days
RECURSIVE AddDays(_, _)
AddDays(dt, n) == IF n = 0 THEN dt ELSE AddDays(NextDay(dt), n - 1)

\* the time an ISO string names, to the minute
Minute(s) == [fromisoformat(s) EXCEPT !.second = 0]

Distinct(ids) == \A i, j \in 1..Len(ids) : ids[i] = ids[j] => i = j

\* C2 (as claimed): a bulkSchedule of a non-empty list of (distinct) ids from a
\* start date D with interval k returns, in the order of the list, each id paired
\* with D advanced by i*k calendar days (i from 0), and leaves every id with
\* status scheduled and the date it was paired with.
C2_BulkScheduleCalendar ==
    (/\ last.op = "bulkSchedule"
     /\ last.articles # <<>> /\ Distinct(last.articles)
     /\ last.startDate # None /\ Val(last.startDate) # EmptyStr)
    => /\ last.resp.code = "200"
       /\ LET ids == last.articles
              out == last.resp.body.scheduled
          IN  /\ Len(out) = Len(ids)
              /\ \A i \in 1..Len(ids) :
                    /\ out[i].id = ids[i]
                    /\ Minute(Val(out[i].publishDate)) =
                           Minute(AddDays(fromisoformat(Val(last.startDate)),
                                          (i - 1) * last.intervalDays)
                                  @@ [prec |-> "minute"])
                    /\ ids[i] \in DOMAIN article_metadata
                    /\ article_metadata[ids[i]].status = "scheduled"
                    /\ article_metadata[ids[i]].publishDate = out[i].publishDate


-----------------------------------------------------------------------------
(* Claims about save (specifications FieldsSpec and EditSpec) *)

\* C7: after a save (the update endpoint), each of status, sources, publishDate and
\* wordGoal that was supplied has the supplied value and each that was omitted has
\* the value from before the call (the default if there was no record); with the
\* body omitted the documents are unchanged, whether or not a title was supplied.
C7_SavePartialUpdate ==
    [][last'.op = "update"
        => LET before == RecordOf(article_metadata, last'.id)
               after  == article_metadata'[last'.id]
               p      == last'.patch
           IN  /\ last'.id \in DOMAIN article_metadata'
               /\ after.status =
                      IF p.status # None THEN Val(p.status) ELSE before.status
               /\ after.sources =
                      IF p.sources # None THEN Val(p.sources) ELSE before.sources
               /\ after.publishDate =
                      IF p.publishDate # None THEN p.publishDate ELSE before.publishDate
               /\ after.wordGoal =
                      IF p.wordGoal # None THEN Val(p.wordGoal) ELSE before.wordGoal
               /\ (last'.content = None => files' = files)]_vars

\* C7 witness: an update with a title, no body and an empty source list left the
\* document as it was, emptied the sources and kept the word goal of an earlier save
C7_Witness ==
    /\ last.op = "update"
    /\ last.title = Some(TextT) /\ last.content = None
    /\ last.patch = Patch(None, Some(<<>>), Some(EmptyStr), None)
    /\ "a" \in DOMAIN files /\ files["a"] = TextX
    /\ article_metadata["a"] =
           [status |-> "bogus", publishDate |-> Some(EmptyStr),
            sources |-> <<>>, wordGoal |-> 500]

\* a save that supplies a non-empty title and a body
TitledSave ==
    /\ last.op \in {"update", "create"}
    /\ last.title # None /\ Val(last.title) # <<>>
    /\ last.content # None

\* what C9 says of the document of the id after such a save
TitleRoundTrip ==
    LET T     == Val(last.title)
        got   == get_article(article_metadata, files, last.id).ret
        lines == split(files[last.id])
    IN  /\ got # None /\ Val(got).title = T
        /\ lines[1] = <<"#", " ">> \o T
        /\ \A i \in 2..Len(lines) :
               ~(Len(lines[i]) >= 2 /\ SubSeq(lines[i], 1, 2) = <<"#", " ">>)

\* C9 (as claimed): after save(id, title=T, body=B) with any non-empty T, get(id)
\* returns title T, the stored body starts with the line "# T" and has no other
\* top-level heading line.
C9_TitleRoundTrip == TitledSave => TitleRoundTrip

\* a title that strip() leaves alone and that is one line
PlainTitle(T) ==
    /\ T[1] \notin {" ", NL} /\ T[Len(T)] \notin {" ", NL}
    /\ \A i \in 1..Len(T) : T[i] # NL

\* C9 (amended): the same, for a non-empty title with no leading or trailing
\* whitespace and no line break.
C9_PlainTitleRoundTrip == (TitledSave /\ PlainTitle(Val(last.title))) => TitleRoundTrip

\* C9 witness: title "T" was saved with a body that had two heading lines of its own
C9_Witness ==
    /\ last.op = "update"
    /\ last.title = Some(TextT) /\ last.content = Some(TextHeadings)
    /\ files["a"] = <<"#", " ", "T", NL, NL, "x", " ", "y">>


-----------------------------------------------------------------------------
(* Claims about concurrent reads of the overlay (specification ThreadSpec) *)

\* the places of a handler that are under cache_lock
UnderLock == {"load_check", "load_insert", "load_copy", "save_store", "pop"}

\* C6: while no thread has written the record of an id that had none when the
\* server started, every thread that has read it holds the default record and
\* the overlay holds that same record; and a thread between the check and the
\* return of load_article_metadata is alone in the overlay.
C6_ConcurrentDefaults ==
    /\ \A t \in Threads :
          (local[t].metadata # None /\ local[t].id \notin written)
          => /\ Val(local[t].metadata) =
                    [status |-> "draft", publishDate |-> None,
                     sources |-> <<>>, wordGoal |-> 1000]
             /\ local[t].id \in DOMAIN article_metadata
             /\ article_metadata[local[t].id] = Val(local[t].metadata)
    /\ \A t, u \in Threads :
          (t # u /\ pc[t] \in {"load_check", "load_insert", "load_copy"})
          => pc[u] \notin UnderLock

\* C6 witness: a reader has found no record and inserted the defaults while a
\* second reader of the same id waits for the lock and a third thread, if any, is idle
C6_Witness ==
    \E t, u \in Threads :
        /\ t # u
        /\ local[t].op = "getStatus" /\ local[u].op = "getStatus"
        /\ local[t].id = local[u].id /\ local[t].id \notin written
        /\ pc[t] = "load_copy" /\ local[t].miss
        /\ pc[u] = "load_lock"


-----------------------------------------------------------------------------
(* Claim about aliasing (specification AliasSpec) *)

\* C8 (as claimed): whatever a caller does to a record or article it was
\* returned, or to the record it passed to put, the records stored in the
\* overlay stay as they are.
C8_NoAliasing ==
    [][last'.op \in {"callerSetsField", "callerAppends"}
        => article_metadata' = article_metadata]_vars


-----------------------------------------------------------------------------
(* Claim about bulk-schedule requests that are refused (specification Spec) *)

\* C11: a bulk-schedule request whose id list is empty or whose start date is
\* absent is answered 400 "Articles and start date required", and leaves every
\* metadata record as it was: none created, none changed.
C11_BulkRejected ==
    [][(last'.op = "bulkSchedule"
          /\ (last'.articles = <<>> \/ last'.startDate = None))
        => /\ last'.resp = Error("400", "Articles and start date required")
           /\ article_metadata' = article_metadata]_vars

\* C11 witness: with a record of a in the overlay that is still the default
\* one, a request for id a with no start date has been refused
C11_Witness ==
    /\ last.op = "bulkSchedule"
    /\ last.resp.code = "400"
    /\ last.articles = <<"a">> /\ last.startDate = None
    /\ "a" \in DOMAIN article_metadata
    /\ article_metadata["a"] = DefaultMetadata


-----------------------------------------------------------------------------
(* Claim about reminders (specification RemindSpec) *)

\* a is an earlier time than b
Before(a, b) ==
    LET key(t) == <<t.year, t.month, t.day, t.hour, t.minute, t.second>>
    IN  \E i \in 1..6 : /\ key(a)[i] < key(b)[i]
                        /\ \A j \in 1..(i - 1) : key(a)[j] = key(b)[j]

\* floor((p - now) / 1 day) = d, for d >= 0: now + d days <= p < now + (d + 1) days
DaysAway(p, now, d) == ~Before(p, AddDays(now, d)) /\ Before(p, AddDays(now, d + 1))

\* the reminders claimed for the article of id, read from the overlay and the files
RemindersDue(article_id, now) ==
    LET date  == article_metadata[article_id].publishDate
        title == IF files[article_id] = <<>> THEN Untitled
                 ELSE extract_title(files[article_id])
        due(subtype) == <<[type |-> "reminder", title |-> subtype,
                           article |-> title, date |-> Val(date)]>>
    IN  IF ~Truthy(date) THEN <<>>
        ELSE IF DaysAway(fromisoformat(Val(date)), now, 1) THEN due("Publishing Tomorrow")
        ELSE IF DaysAway(fromisoformat(Val(date)), now, 7) THEN due("Publishing in 1 Week")
        ELSE <<>>

RECURSIVE AllRemindersDue(_, _)
AllRemindersDue(ids, now) ==
    IF ids = <<>> THEN <<>>
    ELSE (IF Head(ids) \in DOMAIN files THEN RemindersDue(Head(ids), now) ELSE <<>>)
         \o AllRemindersDue(Tail(ids), now)

\* C12: the reminders returned for a reading now of the clock are, article by
\* article in listing order: one "Publishing Tomorrow" if the publish date is
\* at least 1 and less than 2 days after now (d = 1), one "Publishing in 1
\* Week" if it is at least 7 and less than 8 days after now (d = 7), and none
\* for any other distance, for a publish date in the past, or for an article
\* with no publish date (absent, or the empty string).
C12_Reminders ==
    last.op = "notifications"
    => last.resp.body.notifications = AllRemindersDue(IdOrder, last.now)

\* C12 witness: one reading of the clock gave a reminder for tomorrow (article
\* a, due in exactly 1 day) and one for next week (article b)
C12_Witness ==
    /\ last.op = "notifications"
    /\ Len(last.resp.body.notifications) = 2
    /\ last.resp.body.notifications[1].title = "Publishing Tomorrow"
    /\ last.resp.body.notifications[2].title = "Publishing in 1 Week"
    /\ article_metadata["a"].publishDate = Some(Jan27)
    /\ last.now = Clock(2024, 1, 26, 10, 30, 0)

\* C12, second witness case: a publish date 23:59:59 away, and one in the
\* past, gave no reminder
C12_NoReminder ==
    /\ last.op = "notifications"
    /\ last.resp.body.notifications = <<>>
    /\ {"a", "b"} \subseteq DOMAIN files
    /\ article_metadata["a"].publishDate = Some(Jan27)
    /\ article_metadata["b"].publishDate = Some(Jan27)
    /\ last.now \in {Clock(2024, 1, 26, 10, 30, 1), Clock(2024, 1, 28, 9, 0, 0)}


-----------------------------------------------------------------------------
(* Claims about the records the overlay holds (specification Spec) *)

\* C13: a record leaves the overlay only in a step that handles a delete of its
\* own id: every other request, reads that synthesize a record included, keeps
\* every record the overlay holds, and a delete keeps the records of other ids.
C13_RecordRetained ==
    [][\A article_id \in Ids :
          (article_id \in DOMAIN article_metadata
             /\ article_id \notin DOMAIN article_metadata')
          => (last'.op = "delete" /\ last'.id = article_id)]_vars

\* C13 witness: a delete of a has removed the record of a while the record of
\* b, which only a status query synthesized (b has no document and still has
\* the defaults), is still held
C13_Witness ==
    /\ last.op = "delete" /\ last.id = "a" /\ last.resp.code = "200"
    /\ "a" \notin DOMAIN article_metadata
    /\ "b" \in DOMAIN article_metadata
    /\ article_metadata["b"] = DefaultMetadata

\* C14: a get of an id answers 404 (absent) exactly when the id has no document,
\* whether or not the overlay holds a record of it; when the document exists,
\* the article returned carries the status, publishDate, sources and wordGoal
\* of the record the overlay held before the get, or the defaults if it held none.
C14_GetAbsentIffNoDocument ==
    [][last'.op = "get"
        => LET article_id == last'.id
               record == IF article_id \in DOMAIN article_metadata
                         THEN article_metadata[article_id]
                         ELSE [status |-> "draft", publishDate |-> None,
                               sources |-> <<>>, wordGoal |-> 1000]
               article == last'.resp.body
           IN  /\ (last'.resp.code = "404") <=> (article_id \notin DOMAIN files)
               /\ (last'.resp.code = "200") <=> (article_id \in DOMAIN files)
               /\ article_id \in DOMAIN files
                  => /\ article.status = record.status
                     /\ article.publishDate = record.publishDate
                     /\ article.sources = record.sources
                     /\ article.wordGoal = record.wordGoal]_vars

\* C14 witness: b has a record (it was scheduled) and no document, and a get
\* of b has answered 404
C14_Witness ==
    /\ last.op = "get" /\ last.id = "b" /\ last.resp.code = "404"
    /\ "b" \in DOMAIN article_metadata /\ "b" \notin DOMAIN files
    /\ article_metadata["b"].status = "scheduled"

\* C14, the other case: a has a document and a record that is not the default
\* one, and a get of a has returned the fields of that record
C14_Found ==
    /\ last.op = "get" /\ last.id = "a" /\ last.resp.code = "200"
    /\ article_metadata["a"] # DefaultMetadata
    /\ last.resp.body.sources = <<"s1">> /\ last.resp.body.wordGoal = 500


-----------------------------------------------------------------------------
(* Claim about the statuses in the overlay (specification FieldsSpec) *)

\* C15: a status outside draft, review, scheduled, published enters a record
\* of the overlay only in a step that handles an update (save) of that id whose
\* status argument is supplied and is that status.  So as long as no such
\* update is made, every record's status is one of the four: records are
\* synthesized with draft, create writes draft, setStatus refuses other
\* statuses, and schedule and bulkSchedule write scheduled.
C15_StatusInFixedSet ==
    [][\A article_id \in Ids :
          (/\ article_id \in DOMAIN article_metadata'
           /\ article_metadata'[article_id].status \notin FixedStatuses
           /\ \/ article_id \notin DOMAIN article_metadata
              \/ article_metadata[article_id].status
                    # article_metadata'[article_id].status)
          => /\ last'.op = "update" /\ last'.id = article_id
             /\ last'.patch.status = Some(article_metadata'[article_id].status)]_vars

\* C15 witness: an update that supplied the status "bogus" has put it into the
\* record of a
C15_Witness ==
    /\ last.op = "update" /\ last.id = "a"
    /\ last.patch.status = Some("bogus")
    /\ article_metadata["a"].status = "bogus"

\* C15, the other case: a setStatus with the status "bogus" was refused and
\* the record of a has kept a status of the four
C15_Refused ==
    /\ last.op = "setStatus" /\ last.status = Some("bogus") /\ last.resp.code = "400"
    /\ "a" \in DOMAIN article_metadata
    /\ article_metadata["a"].status = "scheduled"


-----------------------------------------------------------------------------
(* Claims about updates run by several threads (specification ThreadSpec) *)

\* thread t stores, in this step, the record it built from the copy it loaded
Stores(t) == pc[t] = "save_store" /\ pc'[t] # "save_store"

-----------------------------------------------------------------------------
(* Claim about a bulk schedule that fails part way (specification BulkSpec) *)

\* C18 (as claimed): a bulkSchedule is all or nothing.  If it does not answer
\* with its result sequence (it is refused, or the date computation raises
\* during the walk), the status and publishDate of every id of the batch are
\* what they were before the call; and if every id of the batch was assigned
\* its date, the call answers with the result sequence.
C18_BulkAllOrNothing ==
    [][last'.op = "bulkSchedule"
        => /\ last'.resp.code # "200"
              => \A i \in 1..Len(last'.articles) :
                    LET before == RecordOf(article_metadata, last'.articles[i])
                        after  == RecordOf(article_metadata', last'.articles[i])
                    IN  /\ after.status = before.status
                        /\ after.publishDate = before.publishDate
           /\ (last'.resp.code = "ValueError"
                 /\ Len(last'.resp.body.partial) = Len(last'.articles))
              => FALSE]_vars

====
